---- MODULE Spec2Model ----
(***************************************************************************)
(* todoman command line (src/todoman/cli.py): the Collection built by      *)
(* cli(), the commands new, edit, show, done and list, and the index       *)
(* cache that list writes and the id-addressed commands read.              *)
(*                                                                         *)
(* An invocation of the tool is one step: cli() builds the Collection from *)
(* the directories on disk, then the subcommand runs to completion. The    *)
(* commands that open the editor, edit and new -i, take two steps: one up  *)
(* to the call of ui.edit(), one from its return; other invocations, other *)
(* editors among them, and other programs run while the editor is open.    *)
(* The wall clock belongs to the environment: every call of datetime.now() *)
(* returns what the clock shows then, ahead of or behind the last value.   *)
(* The storage, the id file, the formatter and the editor are imported by  *)
(* cli.py from modules outside src/; they are modelled from spec.md        *)
(* sections 3, 4.3 and 6.                                                  *)
(***************************************************************************)
EXTENDS Integers, Sequences, FiniteSets, Bags, TLC

VARIABLES
    fs,        \* the disk: glob match -> [isdir, todos: filename -> record]
    idfile,    \* the persisted index cache: position -> <<list name, filename>>
    now,       \* the wall clock as last seen, in seconds
    steps,     \* how many steps have been taken (bounds the model)
    created,   \* how many records `new` has saved (names the next file)
    sessions,  \* the processes waiting in ui.edit(), each with what it holds
    out        \* what the invocation of this step printed and how it exited

vars == <<fs, idfile, now, steps, created, sessions, out>>

-----------------------------------------------------------------------------
(* Bounds and vocabulary *)

MaxSteps == 3

NoTime == -1                  \* Python None for an optional point in time
SevenDays == 7 * 86400        \* timedelta(days=7), in seconds
Due1 == 5 * 86400             \* the point in time the date string "d1" parses to

\* How far the clock moves while no invocation looks at it.
ClockSteps == {86400, SevenDays - 1, SevenDays + 1}
\* How far from the clock as last seen a call of datetime.now() may return:
\* the clock has stepped back, stands, or has moved on.
ClockDrift == {-1, 0, 2}

WorkDir == <<"a", "work">>
HomeDir == <<"a", "home">>
AliasDir == <<"b", "work">>   \* a second directory whose last segment is "work"
NotesFile == <<"a", "notes">> \* a glob match that is not a directory

NewFilenames == <<"n1.ics", "n2.ics", "n3.ics", "n4.ics", "n5.ics", "n6.ics">>

ListArgs == {<<>>, <<"work">>, <<"work", "work">>, <<"work", "nolist">>}
IdArgs == {0, 1, 2, 99}
EditIdArgs == {1, 2}
IdsArgs == {<<1>>, <<1, 2>>, <<2, 1>>, <<99, 1>>}
\* Command lines of `new`: a summary of no or two words, a list that exists
\* or not, a due date that is omitted or does not parse, -i or not. saved and
\* edited are filled in when the editor returns.
NewArg(summary, list, due, interactive, saved, edited) ==
    [summary |-> summary, list |-> list, due |-> due,
     interactive |-> interactive, saved |-> saved, edited |-> edited]

NewArgs ==
    {NewArg(<<"buy", "milk">>, "home", "", FALSE, FALSE, ""),
     NewArg(<<>>, "home", "", FALSE, FALSE, ""),
     NewArg(<<"buy", "milk">>, "nolist", "", FALSE, FALSE, ""),
     NewArg(<<"buy", "milk">>, "home", "someday", FALSE, FALSE, ""),
     NewArg(<<>>, "home", "", TRUE, FALSE, ""),
     NewArg(<<"buy", "milk">>, "home", "", TRUE, FALSE, ""),
     NewArg(<<>>, "home", "d1", TRUE, FALSE, "")}

\* What the user does in the editor of `new -i`: save or cancel, with the
\* summary typed or left empty.
NewEdits == {[saved |-> TRUE, edited |-> "call"], [saved |-> TRUE, edited |-> ""],
             [saved |-> FALSE, edited |-> "call"], [saved |-> FALSE, edited |-> ""]}

EditedSummaries == {"call"}        \* what the user may type in `edit`

\* edit has no command line of new to hold.
NoArgs == NewArg(<<>>, "", "", FALSE, FALSE, "")

Min(S) == CHOOSE x \in S : \A y \in S : x <= y
Perms(S) == {s \in [1..Cardinality(S) -> S] :
                \A i, j \in 1..Cardinality(S) : i # j => s[i] # s[j]}
Range(s) == {s[i] : i \in 1..Len(s)}
NoTodos == <<>>               \* a directory without records

-----------------------------------------------------------------------------
(* Records and storage (model.py, outside src/) *)

\* Todo(): a fresh record, not completed, no filename yet.
Todo == [filename |-> "", summary |-> "", due |-> NoTime,
         is_completed |-> FALSE, completed_at |-> NoTime, malformed |-> FALSE]

\* The is_completed setter: completed_at is set when the flag turns true.
SetCompleted(todo, t) ==
    IF todo.is_completed THEN todo
    ELSE [todo EXCEPT !.is_completed = TRUE, !.completed_at = t]

\* Database(path): the list of one directory, named by its last segment.
Database(disk, path) ==
    [name |-> path[Len(path)], path |-> path, todos |-> disk[path].todos]

\* The directory of the list is there to write to.
Saveable(disk, path) == path \in DOMAIN disk /\ disk[path].isdir

\* Database.save(todo): write the record to its file in the list's directory.
Save(disk, path, todo) ==
    [disk EXCEPT ![path].todos =
        [f \in DOMAIN @ \cup {todo.filename} |->
            IF f = todo.filename THEN todo ELSE @[f]]]

-----------------------------------------------------------------------------
(* cli(): Collection discovery and dedup, cli.py:54-62 *)

isdir(disk, path) == disk[path].isdir

GlobDirs(disk) == {p \in DOMAIN disk : isdir(disk, p)}

\* databases.setdefault(db.name, db) is not db, for some pair of matches
DuplicateNames(disk) ==
    \E p, q \in GlobDirs(disk) : p # q /\ p[Len(p)] = q[Len(q)]

\* The mutant stores with databases[db.name] = db: the last match wins.
cli_overwrite(disk) ==
    [status |-> "ok",
     db |-> [n \in {p[Len(p)] : p \in GlobDirs(disk)} |->
               Database(disk, CHOOSE p \in GlobDirs(disk) : p[Len(p)] = n)]]

cli(disk) ==
    IF DuplicateNames(disk)
    THEN [status |-> "RuntimeError", db |-> <<>>]
    ELSE [status |-> "ok",
          db |-> [n \in {p[Len(p)] : p \in GlobDirs(disk)} |->
                    Database(disk, CHOOSE p \in GlobDirs(disk) : p[Len(p)] = n)]]

-----------------------------------------------------------------------------
(* The index cache (main.py, outside src/) *)

\* dump_idfile(ids): the file holds exactly the mapping given.
dump_idfile(ids) == ids

\* get_todo(databases, id): position -> (list name, filename) -> record.
get_todo(databases, ids, id) ==
    IF id \notin DOMAIN ids
    THEN [status |-> "NoTaskWithId", todo |-> Todo, database |-> <<>>]
    ELSE IF \/ ids[id][1] \notin DOMAIN databases
            \/ ids[id][2] \notin DOMAIN databases[ids[id][1]].todos
         THEN [status |-> "TaskNotFound", todo |-> Todo, database |-> <<>>]
         ELSE [status |-> "ok",
               todo |-> databases[ids[id][1]].todos[ids[id][2]],
               database |-> databases[ids[id][1]].path]

-----------------------------------------------------------------------------
(* The outcome of one invocation *)

Outcome(cmd, status) ==
    [cmd |-> cmd, status |-> status, ids |-> <<>>, failed |-> -1,
     lists |-> <<>>, rows |-> <<>>, replaced |-> 0,
     todo |-> Todo, database |-> <<>>, saved |-> FALSE,
     param |-> "", choices |-> {}, args |-> <<>>,
     checked |-> <<>>, started |-> NoTime, step |-> "run"]

Idle == Outcome("none", "ok")

\* A process that waits in ui.edit(): its command, the id or the command
\* line it was given, the record it holds and the directory of the list it
\* will save to.
Session(cmd, ids, todo, database, args) ==
    [cmd |-> cmd, ids |-> ids, todo |-> todo, database |-> database, args |-> args]

\* The process starts to wait, or has returned from ui.edit().
Waiting(s) == sessions (+) SetToBag({s})
Returned(s) == sessions (-) SetToBag({s})

\* Every step is counted, and the model stops after MaxSteps of them.
Count == steps < MaxSteps /\ steps' = steps + 1

\* The RuntimeError of cli() ends the process before the subcommand starts.
Fatal(cmd) ==
    /\ out' = Outcome(cmd, "RuntimeError")
    /\ UNCHANGED <<fs, idfile, now, created, sessions>>

-----------------------------------------------------------------------------
(* list, cli.py:147-184 *)

\* _validate_list_param: the list of that name, or BadParameter
\* and its message, "<name>. Available lists are: <the names of the Collection>"
_validate_list_param(databases, name) ==
    IF name \in DOMAIN databases
    THEN [status |-> "ok", db |-> databases[name], param |-> "", choices |-> {}]
    ELSE [status |-> "BadParameter", db |-> <<>>,
          param |-> name, choices |-> DOMAIN databases]

\* _validate_lists_param: the named lists in the order given, or every list
\* of the Collection in the order `values` iterates them.
\* The mutant leaves out the names that are no list instead of raising.
_validate_lists_known(databases, lists, values) ==
    IF lists # <<>>
    THEN [status |-> "ok", param |-> "", choices |-> {},
          dbs |-> LET known == SelectSeq(lists, LAMBDA n : n \in DOMAIN databases)
                  IN [i \in 1..Len(known) |-> databases[known[i]]]]
    ELSE [status |-> "ok", param |-> "", choices |-> {},
          dbs |-> [i \in 1..Len(values) |-> databases[values[i]]]]

_validate_lists_param(databases, lists, values) ==
    IF lists # <<>>
    THEN LET bad == {i \in 1..Len(lists) :
                       _validate_list_param(databases, lists[i]).status # "ok"}
         IN IF bad # {}
            THEN [status |-> "BadParameter", dbs |-> <<>>,
                  param |-> _validate_list_param(databases, lists[Min(bad)]).param,
                  choices |-> _validate_list_param(databases, lists[Min(bad)]).choices]
            ELSE [status |-> "ok", param |-> "", choices |-> {},
                  dbs |-> [i \in 1..Len(lists) |->
                             _validate_list_param(databases, lists[i]).db]]
    ELSE [status |-> "ok", param |-> "", choices |-> {},
          dbs |-> [i \in 1..Len(values) |-> databases[values[i]]]]

\* The mutant tests `not todo.completed_at or ...`: a completed record
\* without a completion time passes.
ListFilterUndated(todo, t) ==
    \/ ~todo.is_completed
    \/ (todo.completed_at = NoTime \/ todo.completed_at + SevenDays >= t)

\* The mutant compares with > and drops the record completed exactly 7 days ago.
ListFilterStrict(todo, t) ==
    \/ ~todo.is_completed
    \/ (todo.completed_at # NoTime /\ todo.completed_at + SevenDays > t)

\* The mutant lists the unfinished records only.
ListFilterOpenOnly(todo, t) == ~todo.is_completed

\* cli.py:162-166: not completed, or completed within the last 7 days
ListFilter(todo, t) ==
    \/ ~todo.is_completed
    \/ (todo.completed_at # NoTime /\ todo.completed_at + SevenDays >= t)

\* cli.py:163-165: datetime.now(tzlocal()) stands in the condition of the
\* generator behind `not todo.is_completed or (todo.completed_at and ...)`,
\* so the clock is read once for every completed record that has a
\* completion time, and for no other record.
ReadsClock(todo) == todo.is_completed /\ todo.completed_at # NoTime

\* cli.py:159-161: the (database, todo) pairs in iteration order; order[p]
\* is the order in which database p iterates its records.
RECURSIVE IterPairs(_, _)
IterPairs(dbs, order) ==
    IF dbs = <<>> THEN <<>>
    ELSE LET d == Head(dbs)
             o == order[d.path]
         IN [i \in 1..Len(o) |-> [database |-> d, todo |-> d.todos[o[i]]]]
            \o IterPairs(Tail(dbs), order)

\* cli.py:162-166 for the pairs in turn: clock holds the values the
\* successive calls of datetime.now() return. Every pair is given the value
\* its condition read (NoTime when it read none) and whether it is kept.
RECURSIVE Checks(_, _)
Checks(pairs, clock) ==
    IF pairs = <<>> THEN <<>>
    ELSE LET x == Head(pairs) IN
         IF ReadsClock(x.todo)
         THEN <<[database |-> x.database, todo |-> x.todo, clock |-> Head(clock),
                 kept |-> ListFilter(x.todo, Head(clock))]>>
              \o Checks(Tail(pairs), Tail(clock))
         ELSE <<[database |-> x.database, todo |-> x.todo, clock |-> NoTime,
                 kept |-> ListFilter(x.todo, NoTime)]>>
              \o Checks(Tail(pairs), clock)

\* cli.py:158-166: the pairs the generator yields, in iteration order
Pairs(dbs, order, clock) ==
    SelectSeq(Checks(IterPairs(dbs, order), clock), LAMBDA x : x.kept)

\* The values n calls of datetime.now() may return, the clock having been
\* seen at t: each call returns what the wall clock shows at that moment,
\* whatever the call before it returned. The clock counts the seconds since
\* the epoch and does not go below 0.
ClockReads(t, n) == [1..n -> {v \in {t + d : d \in ClockDrift} : v >= 0}]

\* n calls that all find the clock at t.
SteadyClock(t, n) == [k \in 1..n |-> t]

\* The number of calls of datetime.now() a listing of these pairs makes.
NumReads(pairs) == Cardinality({k \in 1..Len(pairs) : ReadsClock(pairs[k].todo)})

\* The filenames of the model in the order of their strings.
FilenameOrder == NewFilenames \o <<"t0.ics", "t1.ics">>

FilenameRank(filename) ==
    CHOOSE i \in 1..Len(FilenameOrder) : FilenameOrder[i] = filename

\* task_sort_func (main.py, outside src/): open before completed, then a due
\* date before none, then the earlier due date; records equal in these are
\* ordered by filename (spec.md 4.2, the secondary stable key).
task_sort_func(todo) ==
    <<IF todo.is_completed THEN 0 ELSE 1,
      IF todo.due = NoTime THEN 0 ELSE 1,
      IF todo.due = NoTime THEN 0 ELSE 0 - todo.due,
      FilenameRank(todo.filename)>>

\* Python's order on tuples of equal length
KeyLess(a, b) ==
    \E i \in 1..Len(a) : a[i] < b[i] /\ \A j \in 1..(i - 1) : a[j] = b[j]

\* The mutant sorts without reverse=True: ascending and stable.
RECURSIVE sortedAscending(_)
sortedAscending(s) ==
    IF s = <<>> THEN <<>>
    ELSE LET init == sortedAscending(SubSeq(s, 1, Len(s) - 1))
             x == s[Len(s)]
             higher == {i \in 1..Len(init) :
                          KeyLess(task_sort_func(x.todo), task_sort_func(init[i].todo))}
             k == IF higher = {} THEN Len(init) + 1 ELSE Min(higher)
         IN SubSeq(init, 1, k - 1) \o <<x>> \o SubSeq(init, k, Len(init))

\* sorted(..., key=task_sort_func, reverse=True): descending and stable
RECURSIVE sorted(_)
sorted(s) ==
    IF s = <<>> THEN <<>>
    ELSE LET init == sorted(SubSeq(s, 1, Len(s) - 1))
             x == s[Len(s)]
             lower == {i \in 1..Len(init) :
                         KeyLess(task_sort_func(init[i].todo), task_sort_func(x.todo))}
             k == IF lower = {} THEN Len(init) + 1 ELSE Min(lower)
         IN SubSeq(init, 1, k - 1) \o <<x>> \o SubSeq(init, k, Len(init))

\* The mutant numbers the rows with enumerate(todos), from 0.
ListIdsFromZero(old, todos) ==
    [i \in 0..(Len(todos) - 1) |->
        <<todos[i + 1].database.name, todos[i + 1].todo.filename>>]

\* The mutant updates the mapping read from the id file instead of ids = {}.
ListIdsMerge(old, todos) ==
    [i \in DOMAIN old \cup 1..Len(todos) |->
        IF i \in 1..Len(todos)
        THEN <<todos[i].database.name, todos[i].todo.filename>>
        ELSE old[i]]

\* cli.py:171-174: ids = {}; ids[index] = (database.name, todo.filename)
ListIds(old, todos) ==
    [i \in 1..Len(todos) |-> <<todos[i].database.name, todos[i].todo.filename>>]

\* cli.py:175-182: the line printed for the pair at position index
RenderRow(index, pair) ==
    IF pair.todo.malformed
    THEN [kind |-> "error", index |-> 0,
          text |-> pair.database.name \o "/" \o pair.todo.filename,
          database |-> pair.database.path, todo |-> pair.todo, clock |-> pair.clock]
    ELSE [kind |-> "row", index |-> index, text |-> pair.todo.summary,
          database |-> pair.database.path, todo |-> pair.todo, clock |-> pair.clock]

\* The mutant has no try/except: the first failing record ends the command.
ListRunAbort(old, todos) ==
    LET bad == {i \in 1..Len(todos) : todos[i].todo.malformed} IN
    IF bad = {}
    THEN [status |-> "ok", ids |-> ListIds(old, todos),
          rows |-> [i \in 1..Len(todos) |-> RenderRow(i, todos[i])]]
    ELSE [status |-> "Exception", ids |-> old,
          rows |-> [i \in 1..(Min(bad) - 1) |-> RenderRow(i, todos[i])]]

\* cli.py:171-184: the loop over the sorted pairs and the id file written
ListRun(old, todos) ==
    [status |-> "ok", ids |-> ListIds(old, todos),
     rows |-> [i \in 1..Len(todos) |-> RenderRow(i, todos[i])]]

\* The filenames in S as a sequence, in the order of their strings.
InFilenameOrder(S) ==
    CHOOSE s \in Perms(S) :
        \A i, j \in 1..Len(s) : i < j => FilenameRank(s[i]) < FilenameRank(s[j])

\* The orders in which the lists in dirs may iterate their records
\* (todos.values()). Where a record stands bears on the command only through
\* the clock value its condition reads, task_sort_func ordering the records
\* of one list by filename in the end: every order of the records that read
\* the clock is taken, the other records follow in one order.
RECURSIVE OrdersOver(_, _)
OrdersOver(disk, dirs) ==
    IF dirs = {} THEN {<<>>}
    ELSE LET p == CHOOSE q \in dirs : TRUE
             reading == {f \in DOMAIN disk[p].todos : ReadsClock(disk[p].todos[f])}
         IN {(p :> (o \o InFilenameOrder(DOMAIN disk[p].todos \ reading))) @@ rest :
                o \in Perms(reading),
                rest \in OrdersOver(disk, dirs \ {p})}

TodoOrders(disk) == OrdersOver(disk, GlobDirs(disk))

\* The orders in which databases.values() may iterate the Collection; it is
\* read only when no list is named.
ValuesOrders(disk, lists) ==
    IF lists = <<>> THEN Perms({p[Len(p)] : p \in GlobDirs(disk)}) ELSE {<<>>}

\* The clock sequences a listing with these arguments may be given: one
\* value for every call of datetime.now() it makes, none when cli() or the
\* validation of the names ends it.
ListClocks(lists, values, order) ==
    LET c == cli(fs) IN
    IF c.status # "ok" THEN {<<>>}
    ELSE LET sel == _validate_lists_param(c.db, lists, values) IN
         IF sel.status # "ok" THEN {<<>>}
         ELSE ClockReads(now, NumReads(IterPairs(sel.dbs, order)))

\* cli.py:156-184. clock holds what the calls of datetime.now() of this
\* listing return, in turn; the clock is left at the last of them.
ListBody(cmd, lists, values, order, clock) ==
    /\ Count
    /\ LET c == cli(fs) IN
           IF c.status # "ok" THEN clock = <<>> /\ Fatal(cmd)
           ELSE LET sel == _validate_lists_param(c.db, lists, values) IN
                IF sel.status # "ok"
                THEN /\ clock = <<>>
                     /\ out' = [Outcome(cmd, sel.status) EXCEPT !.lists = lists,
                                  !.param = sel.param, !.choices = sel.choices]
                     /\ UNCHANGED <<fs, idfile, now, created, sessions>>
                ELSE LET iter == IterPairs(sel.dbs, order)
                         run == ListRun(idfile, sorted(Pairs(sel.dbs, order, clock)))
                     IN
                     /\ Len(clock) = NumReads(iter)
                     /\ idfile' = dump_idfile(run.ids)
                     /\ now' = IF clock = <<>> THEN now ELSE clock[Len(clock)]
                     /\ out' = [Outcome(cmd, run.status) EXCEPT
                                  !.lists = lists, !.rows = run.rows,
                                  !.replaced = Cardinality(DOMAIN idfile),
                                  !.checked = Checks(iter, clock),
                                  !.started = now]
                     /\ UNCHANGED <<fs, created, sessions>>

List(lists, values, order, clock) == ListBody("list", lists, values, order, clock)

\* The mutant's default route lists the first list of the Collection only.
NoSubcommandFirstList(values, order, clock) ==
    ListBody("", <<values[1]>>, values, order, clock)

\* cli.py:64-65: no subcommand given, list is invoked with no arguments
NoSubcommand(values, order, clock) == ListBody("", <<>>, values, order, clock)

-----------------------------------------------------------------------------
(* show, cli.py:120-128 *)

Show(id) ==
    /\ Count
    /\ LET c == cli(fs) IN
           IF c.status # "ok" THEN Fatal("show")
           ELSE LET r == get_todo(c.db, idfile, id) IN
                /\ out' = [Outcome("show", r.status) EXCEPT
                             !.ids = <<id>>, !.todo = r.todo, !.database = r.database,
                             !.failed = IF r.status = "ok" THEN -1 ELSE id]
                /\ UNCHANGED <<fs, idfile, now, created, sessions>>

-----------------------------------------------------------------------------
(* done, cli.py:131-141 *)

\* The mutant writes the flag alone and leaves completed_at as it was.
DoneMarkFlagOnly(todo, t) == [todo EXCEPT !.is_completed = TRUE]

\* The mutant clears the due date of the task it completes.
DoneMarkDropsDue(todo, t) == [SetCompleted(todo, t) EXCEPT !.due = NoTime]

\* cli.py:140: todo.is_completed = True, through the record's setter
DoneMark(todo, t) == SetCompleted(todo, t)

\* cli.py:138-141: the loop over ids from position i on; the first id that
\* get_todo rejects raises out of the loop and ends the command.
RECURSIVE DoneLoop(_, _, _, _, _)
DoneLoop(disk, cache, ids, i, t) ==
    IF i > Len(ids) THEN [disk |-> disk, status |-> "ok", failed |-> -1]
    ELSE LET r == get_todo(cli(disk).db, cache, ids[i]) IN
         IF r.status # "ok"
         THEN [disk |-> disk, status |-> r.status, failed |-> ids[i]]
         ELSE DoneLoop(Save(disk, r.database, DoneMark(r.todo, t)),
                       cache, ids, i + 1, t)

\* The mutant forgets the positions of the tasks it has completed.
DoneDropsIds(ids) ==
    /\ Count
    /\ LET c == cli(fs) IN
           IF c.status # "ok" THEN Fatal("done")
           ELSE LET r == DoneLoop(fs, idfile, ids, 1, now) IN
                /\ fs' = r.disk
                /\ idfile' = [k \in DOMAIN idfile \ Range(ids) |-> idfile[k]]
                /\ out' = [Outcome("done", r.status) EXCEPT !.ids = ids, !.failed = r.failed]
                /\ UNCHANGED <<now, created, sessions>>

Done(ids) ==
    /\ Count
    /\ LET c == cli(fs) IN
           IF c.status # "ok" THEN Fatal("done")
           ELSE LET r == DoneLoop(fs, idfile, ids, 1, now) IN
                /\ fs' = r.disk
                /\ out' = [Outcome("done", r.status) EXCEPT !.ids = ids, !.failed = r.failed]
                /\ UNCHANGED <<idfile, now, created, sessions>>

-----------------------------------------------------------------------------
(* edit, cli.py:107-117 *)

\* TodoEditor.edit() (ui.py, outside src/): the user leaves the summary as
\* typed and either saves or cancels.
TodoEditor(todo, summary) == [todo EXCEPT !.summary = summary]

\* The mutant catches the error of get_todo and returns quietly.
EditQuiet(id) ==
    /\ Count
    /\ LET c == cli(fs) IN
           IF c.status # "ok" THEN Fatal("edit")
           ELSE LET r == get_todo(c.db, idfile, id) IN
                /\ sessions' = IF r.status = "ok"
                               THEN Waiting(Session("edit", <<id>>, r.todo,
                                                    r.database, NoArgs))
                               ELSE sessions
                /\ out' = [Outcome("edit", IF r.status = "ok" THEN "editing" ELSE "ok")
                             EXCEPT !.ids = <<id>>]
                /\ UNCHANGED <<fs, idfile, now, created>>

\* cli.py:114-116: edit up to the call of ui.edit(); the record get_todo
\* returned is held by the process while the editor is open. Nothing keeps
\* a second invocation from starting meanwhile.
Edit(id) ==
    /\ Count
    /\ LET c == cli(fs) IN
           IF c.status # "ok" THEN Fatal("edit")
           ELSE LET r == get_todo(c.db, idfile, id) IN
                IF r.status # "ok"
                THEN /\ out' = [Outcome("edit", r.status) EXCEPT !.ids = <<id>>, !.failed = id]
                     /\ UNCHANGED <<fs, idfile, now, created, sessions>>
                ELSE /\ sessions' = Waiting(Session("edit", <<id>>, r.todo,
                                                    r.database, NoArgs))
                     /\ out' = [Outcome("edit", "editing") EXCEPT !.ids = <<id>>,
                                  !.todo = r.todo, !.database = r.database]
                     /\ UNCHANGED <<fs, idfile, now, created>>

\* cli.py:116-117: ui.edit() returns in the process s and, when it returns
\* true, the record the process holds is saved to the list it was read from,
\* whatever has happened to its file since.
EditSave(s, saved, summary) ==
    /\ Count
    /\ BagIn(s, sessions)
    /\ s.cmd = "edit"
    /\ sessions' = Returned(s)
    /\ LET todo == TodoEditor(s.todo, summary) IN
           IF saved /\ ~Saveable(fs, s.database)
           THEN /\ out' = [Outcome("edit", "PersistenceError") EXCEPT
                             !.ids = s.ids, !.todo = todo,
                             !.database = s.database, !.step = "resume"]
                /\ UNCHANGED <<fs, idfile, now, created>>
           ELSE /\ fs' = IF saved THEN Save(fs, s.database, todo) ELSE fs
                /\ out' = [Outcome("edit", "ok") EXCEPT
                             !.ids = s.ids, !.saved = saved, !.todo = todo,
                             !.database = s.database, !.step = "resume"]
                /\ UNCHANGED <<idfile, now, created>>

-----------------------------------------------------------------------------
(* new, cli.py:75-104 *)

\* ' '.join(summary)
RECURSIVE Join(_)
Join(words) ==
    IF words = <<>> THEN ""
    ELSE IF Len(words) = 1 THEN words[1]
         ELSE words[1] \o " " \o Join(Tail(words))

\* TodoFormatter.unformat_date (ui.py, outside src/): the empty string is no
\* date, a date string is its point in time, anything else a ValueError.
unformat_date(due) ==
    IF due = "" THEN [status |-> "ok", due |-> NoTime]
    ELSE IF due = "d1" THEN [status |-> "ok", due |-> Due1]
         ELSE [status |-> "ValueError", due |-> NoTime]

\* _validate_due_param, cli.py:34-38
_validate_due_param(due) ==
    IF unformat_date(due).status = "ok" THEN unformat_date(due)
    ELSE [status |-> "BadParameter", due |-> NoTime]

\* The mutant checks the summary before it looks at what the editor returned.
NewOutcomeCheckFirst(interactive, saved, draft, todo) ==
    IF todo.summary = "" THEN "UsageError"
    ELSE IF interactive /\ ~saved THEN "Exit1" ELSE "ok"

\* The mutant checks the summary of the command line, before the editor runs.
NewOutcomeCheckDraft(interactive, saved, draft, todo) ==
    IF draft.summary = "" THEN "UsageError"
    ELSE IF interactive /\ ~saved THEN "Exit1" ELSE "ok"

\* cli.py:94-103: how new ends for the record `draft` of the command line and
\* the record `todo` the editor left; ctx.exit(1) when the editor was
\* cancelled, then the usage error for an empty summary, then the save.
NewOutcome(interactive, saved, draft, todo) ==
    IF interactive /\ ~saved THEN "Exit1"
    ELSE IF todo.summary = "" THEN "UsageError" ELSE "ok"

\* cli.py:85-103: new without -i runs to its end; new -i runs up to the call
\* of ui.edit() and holds the record and the list while the editor is open,
\* whatever other process waits in an editor of its own.
New(summary, list, due, interactive) ==
    /\ Count
    /\ LET c == cli(fs) IN
           IF c.status # "ok" THEN Fatal("new")
              ELSE LET l == _validate_list_param(c.db, list)
                       d == _validate_due_param(due)
                       draft == [Todo EXCEPT !.summary = Join(summary), !.due = d.due]
                       stored == [draft EXCEPT !.filename = NewFilenames[created + 1]]
                       args == NewArg(summary, list, due, interactive, FALSE, "")
                       end == NewOutcome(FALSE, FALSE, draft, draft)
                   IN
                   IF l.status # "ok" \/ d.status # "ok"
                   THEN /\ out' = [Outcome("new", "BadParameter") EXCEPT !.args = args]
                        /\ UNCHANGED <<fs, idfile, now, created, sessions>>
                   ELSE IF interactive
                   THEN /\ sessions' = Waiting(Session("new", <<>>, draft,
                                                       l.db.path, args))
                        /\ out' = [Outcome("new", "editing") EXCEPT !.args = args,
                                     !.todo = draft, !.database = l.db.path]
                        /\ UNCHANGED <<fs, idfile, now, created>>
                   ELSE IF end # "ok"
                   THEN /\ out' = [Outcome("new", end) EXCEPT !.args = args]
                        /\ UNCHANGED <<fs, idfile, now, created, sessions>>
                   ELSE /\ fs' = Save(fs, l.db.path, stored)
                        /\ created' = created + 1
                        /\ out' = [Outcome("new", "ok") EXCEPT !.saved = TRUE,
                                     !.todo = stored, !.database = l.db.path,
                                     !.args = args]
                        /\ UNCHANGED <<idfile, now, sessions>>

\* cli.py:96-103: ui.edit() returns in the process s of new -i; the record
\* the editor left is checked and saved to the list the command line named.
NewSave(s, saved, edited) ==
    /\ Count
    /\ BagIn(s, sessions)
    /\ s.cmd = "new"
    /\ sessions' = Returned(s)
    /\ LET todo == TodoEditor(s.todo, edited)
           stored == [todo EXCEPT !.filename = NewFilenames[created + 1]]
           args == [s.args EXCEPT !.saved = saved, !.edited = edited]
           end == NewOutcome(TRUE, saved, s.todo, todo)
       IN
       IF end # "ok"
       THEN /\ out' = [Outcome("new", end) EXCEPT !.args = args, !.step = "resume"]
            /\ UNCHANGED <<fs, idfile, now, created>>
       ELSE IF ~Saveable(fs, s.database)
       THEN /\ out' = [Outcome("new", "PersistenceError") EXCEPT !.args = args,
                         !.step = "resume"]
            /\ UNCHANGED <<fs, idfile, now, created>>
       ELSE /\ fs' = Save(fs, s.database, stored)
            /\ created' = created + 1
            /\ out' = [Outcome("new", "ok") EXCEPT !.saved = TRUE,
                         !.todo = stored, !.database = s.database,
                         !.args = args, !.step = "resume"]
            /\ UNCHANGED <<idfile, now>>

-----------------------------------------------------------------------------
(* The environment *)

\* A record's file is deleted by another program (spec.md section 3, the
\* staleness window of the index cache).
ExternalRemoveTodo(path, filename) ==
    /\ Count
    /\ path \in GlobDirs(fs)
    /\ filename \in DOMAIN fs[path].todos
    /\ fs' = [fs EXCEPT ![path].todos = [f \in DOMAIN @ \ {filename} |-> @[f]]]
    /\ out' = Idle
    /\ UNCHANGED <<idfile, now, created, sessions>>

\* A list's directory is removed or renamed away by another program.
ExternalRemoveDir(path) ==
    /\ Count
    /\ path \in GlobDirs(fs)
    /\ fs' = [p \in DOMAIN fs \ {path} |-> fs[p]]
    /\ out' = Idle
    /\ UNCHANGED <<idfile, now, created, sessions>>

\* A second directory named "work" comes to match the glob pattern.
ExternalAddDir ==
    /\ Count
    /\ AliasDir \notin DOMAIN fs
    /\ fs' = fs @@ (AliasDir :> [isdir |-> TRUE, todos |-> NoTodos])
    /\ out' = Idle
    /\ UNCHANGED <<idfile, now, created, sessions>>

Tick(d) ==
    /\ Count
    /\ now' = now + d
    /\ out' = Idle
    /\ UNCHANGED <<fs, idfile, created, sessions>>

-----------------------------------------------------------------------------

\* The records found on disk at the start: in "work" an open one, with a due
\* date or with a field the formatter cannot render; in "home" one completed
\* a second ago.
InitWork ==
    {[Todo EXCEPT !.filename = "t1.ics", !.summary = "pay", !.due = Due1],
     [Todo EXCEPT !.filename = "t1.ics", !.summary = "bad", !.malformed = TRUE]}

InitHome ==
    {[Todo EXCEPT !.filename = "t1.ics", !.summary = "fix",
                  !.is_completed = TRUE, !.completed_at = 0]}

Dir(recs) == [isdir |-> TRUE, todos |-> recs]

Init ==
    /\ \E w \in InitWork, h \in InitHome :
         fs = (WorkDir :> Dir("t1.ics" :> w)) @@ (HomeDir :> Dir("t1.ics" :> h))
              @@ (NotesFile :> [isdir |-> FALSE, todos |-> NoTodos])
    /\ idfile = <<>>
    /\ now = 1
    /\ steps = 0
    /\ created = 0
    /\ sessions = EmptyBag
    /\ out = Idle

\* The same disk with one more record in "home": completed by another program
\* that wrote no completion time.
InitDisk ==
    /\ \E w \in InitWork, h \in InitHome :
         fs = (WorkDir :> Dir("t1.ics" :> w))
              @@ (HomeDir :> Dir(("t1.ics" :> h) @@
                    ("t0.ics" :> [Todo EXCEPT !.filename = "t0.ics", !.summary = "old",
                                              !.is_completed = TRUE])))
              @@ (NotesFile :> [isdir |-> FALSE, todos |-> NoTodos])
    /\ idfile = <<>>
    /\ now = 1
    /\ steps = 0
    /\ created = 0
    /\ sessions = EmptyBag
    /\ out = Idle

Next ==
    \/ \E lists \in ListArgs, order \in TodoOrders(fs) :
          \E values \in ValuesOrders(fs, lists) :
             \E clock \in ListClocks(lists, values, order) :
                List(lists, values, order, clock)
    \/ \E order \in TodoOrders(fs), values \in ValuesOrders(fs, <<>>) :
          \E clock \in ListClocks(<<>>, values, order) :
             NoSubcommand(values, order, clock)
    \/ \E id \in IdArgs : Show(id)
    \/ \E ids \in IdsArgs : Done(ids)
    \/ \E id \in EditIdArgs : Edit(id)
    \/ \E s \in BagToSet(sessions), saved \in BOOLEAN, summary \in EditedSummaries :
          EditSave(s, saved, summary)
    \/ \E a \in NewArgs : New(a.summary, a.list, a.due, a.interactive)
    \/ \E s \in BagToSet(sessions), e \in NewEdits : NewSave(s, e.saved, e.edited)
    \/ \E d \in ClockSteps : Tick(d)
    \/ \E path \in {HomeDir}, filename \in {"t1.ics"} :
          ExternalRemoveTodo(path, filename)
    \/ \E path \in {HomeDir} : ExternalRemoveDir(path)
    \/ ExternalAddDir

\* The first disk after a `todo list` of an earlier session has written the
\* index cache.
InitListed ==
    /\ \E w \in InitWork, h \in InitHome :
         fs = (WorkDir :> Dir("t1.ics" :> w)) @@ (HomeDir :> Dir("t1.ics" :> h))
              @@ (NotesFile :> [isdir |-> FALSE, todos |-> NoTodos])
    /\ now = 1
    /\ \E values \in ValuesOrders(fs, <<>>), order \in TodoOrders(fs) :
         LET dbs == _validate_lists_param(cli(fs).db, <<>>, values).dbs
             clock == SteadyClock(now, NumReads(IterPairs(dbs, order)))
         IN idfile = dump_idfile(ListRun(<<>>, sorted(Pairs(dbs, order, clock))).ids)
    /\ steps = 0
    /\ created = 0
    /\ sessions = EmptyBag
    /\ out = Idle

Spec == Init /\ [][Next]_vars

SpecListed == InitListed /\ [][Next]_vars

SpecDisk == InitDisk /\ [][Next]_vars

-----------------------------------------------------------------------------
(* What the claims speak of *)

ListCmds == {"list", ""}
Listed == out.cmd \in ListCmds /\ out.status = "ok"

NameOf(path) == path[Len(path)]

\* The directories a listing with the arguments `lists` reads.
Selected(lists) ==
    IF lists = <<>> THEN GlobDirs(fs)
    ELSE {p \in GlobDirs(fs) : NameOf(p) \in Range(lists)}

\* The record is rendered at some position of the last output.
Rendered(path, todo) ==
    \E k \in 1..Len(out.rows) : out.rows[k].database = path /\ out.rows[k].todo = todo

\* The record has a position in the index cache.
Indexed(path, todo) ==
    \E k \in DOMAIN idfile : idfile[k] = <<NameOf(path), todo.filename>>

\* The checks of the last listing: for every pair it iterated the record,
\* its list, the clock value its condition read and whether it was kept.
Checked == {out.checked[k] : k \in 1..Len(out.checked)}

\* The pair of the check is rendered, with the clock value of the check.
Shown(c) ==
    \E k \in 1..Len(out.rows) :
        /\ out.rows[k].database = c.database.path
        /\ out.rows[k].todo = c.todo
        /\ out.rows[k].clock = c.clock

\* Seconds from the completion of the record to the moment of the check.
Age(c) == c.clock - c.todo.completed_at

\* The values the calls of datetime.now() of the last listing returned, in
\* turn.
ClockSeen ==
    LET reads == SelectSeq(out.checked, LAMBDA c : c.clock # NoTime)
    IN [k \in 1..Len(reads) |-> reads[k].clock]

\* The record is completed and has a completion time.
Dated(todo) == todo.is_completed /\ todo.completed_at # NoTime

-----------------------------------------------------------------------------
(* C1: after a list invocation that produced N rows, resolving id k, for    *)
(* every k in 1..N, returns the list and the record rendered at position k. *)
C1_RoundTrip ==
    Listed =>
        \A k \in 1..Len(out.rows) :
            LET r == get_todo(cli(fs).db, idfile, k) IN
            /\ r.status = "ok"
            /\ r.database = out.rows[k].database
            /\ r.todo = out.rows[k].todo

\* A listing of two rows from two lists whose records have the same filename.
C1_Witness ==
    /\ Listed
    /\ Len(out.rows) = 2
    /\ out.rows[1].database # out.rows[2].database
    /\ out.rows[1].todo.filename = out.rows[2].todo.filename

(* C2: done on a batch with one stale or unknown id still completes every   *)
(* other valid id of the batch, wherever the bad id stands, and fails.      *)
C2_DoneIsolation ==
    (out.cmd = "done" /\ out.status \in {"NoTaskWithId", "TaskNotFound"}) =>
        \A i \in 1..Len(out.ids) :
            LET r == get_todo(cli(fs).db, idfile, out.ids[i]) IN
            r.status = "ok" => r.todo.is_completed

(* C3: when two directories of the glob have the same list name, every      *)
(* invocation ends in the fatal error of cli(), no command runs, no record  *)
(* changes and the index cache is not rewritten.                            *)
C3_DuplicateFatal ==
    [][(DuplicateNames(fs) /\ out'.cmd # "none" /\ out'.step = "run") =>
         /\ out'.status = "RuntimeError"
         /\ out'.rows = <<>>
         /\ fs' = fs
         /\ idfile' = idfile]_vars

\* The default listing was asked for and cli() ended it.
C3_Witness ==
    DuplicateNames(fs) /\ out.cmd = "" /\ out.status = "RuntimeError"

\* The filter rule as the claim words it, for the moment t.
C4_Keep(todo, t) ==
    \/ ~todo.is_completed
    \/ (todo.is_completed /\ todo.completed_at # NoTime
        /\ todo.completed_at >= t - SevenDays)

\* The directories a listing with the arguments `lists` reads, one for every
\* time it reads it.
C8_Read(lists) ==
    IF lists = <<>>
    THEN CHOOSE s \in Perms(GlobDirs(fs)) : TRUE
    ELSE [i \in 1..Len(lists) |-> CHOOSE p \in GlobDirs(fs) : NameOf(p) = lists[i]]

\* How many records a listing that reads these directories goes through.
RECURSIVE NumRecords(_)
NumRecords(dirs) ==
    IF dirs = <<>> THEN 0
    ELSE Cardinality(DOMAIN fs[Head(dirs)].todos) + NumRecords(Tail(dirs))

(* C4: list goes through every record of the selected lists and keeps it if *)
(* and only if it is not completed, or it is completed and completed_at is  *)
(* at or after now minus 7 days, now being what the clock returned when the *)
(* record was looked at; every other record, one completed without          *)
(* completed_at included, is in neither the output nor the index cache.     *)
C4_FilterRule ==
    Listed =>
        /\ Len(out.checked) = NumRecords(C8_Read(out.lists))
        /\ \A p \in Selected(out.lists) : \A f \in DOMAIN fs[p].todos :
             /\ \E c \in Checked : c.database.path = p /\ c.todo = fs[p].todos[f]
             /\ Indexed(p, fs[p].todos[f]) <=>
                   \E c \in Checked : /\ c.database.path = p
                                      /\ c.todo = fs[p].todos[f]
                                      /\ C4_Keep(c.todo, c.clock)
        /\ \A c \in Checked :
             /\ c.database.path \in Selected(out.lists)
             /\ c.todo.filename \in DOMAIN fs[c.database.path].todos
             /\ c.todo = fs[c.database.path].todos[c.todo.filename]
             /\ (c.clock # NoTime) <=> Dated(c.todo)
             /\ Shown(c) <=> C4_Keep(c.todo, c.clock)
        /\ \A k \in 1..Len(out.rows) :
             \E c \in Checked : /\ c.database.path = out.rows[k].database
                                /\ c.todo = out.rows[k].todo
                                /\ c.clock = out.rows[k].clock

\* A listing that left out a completed record without completion time and
\* kept a completed record that has one.
C4_Witness ==
    /\ Listed
    /\ \E p \in Selected(out.lists) : \E f \in DOMAIN fs[p].todos :
         /\ fs[p].todos[f].is_completed
         /\ fs[p].todos[f].completed_at = NoTime
         /\ ~Rendered(p, fs[p].todos[f])
    /\ \E p \in Selected(out.lists) : \E f \in DOMAIN fs[p].todos :
         /\ fs[p].todos[f].is_completed
         /\ fs[p].todos[f].completed_at # NoTime
         /\ Rendered(p, fs[p].todos[f])

(* C5 as stated: a record completed exactly 7 days before now is excluded,  *)
(* one completed a second less than 7 days before now is included.          *)
C5_BoundaryExcluded ==
    Listed =>
        \A c \in Checked :
            Dated(c.todo) =>
                /\ Age(c) = SevenDays => ~Shown(c)
                /\ Age(c) = SevenDays - 1 => Shown(c)

(* C5 amended: a record completed exactly 7 days before now is included, as *)
(* is one completed a second less than that; a record completed 7 days and  *)
(* one second before now is excluded; now is the clock at the moment the    *)
(* record is looked at.                                                     *)
C5_BoundaryIncluded ==
    Listed =>
        \A c \in Checked :
            Dated(c.todo) =>
                /\ Age(c) = SevenDays => Shown(c)
                /\ Age(c) = SevenDays - 1 => Shown(c)
                /\ Age(c) = SevenDays + 1 => ~Shown(c)

\* A listing that looked at a record exactly 7 days after it was completed
\* shows it.
C5_Witness ==
    /\ Listed
    /\ \E c \in Checked : Dated(c.todo) /\ Age(c) = SevenDays /\ Shown(c)

(* C6: in every state reached by new, edit, done and list, every record has *)
(* completed_at if and only if is_completed is true; done sets both.        *)
C6_CompletedAtIffCompleted ==
    \A p \in GlobDirs(fs) : \A f \in DOMAIN fs[p].todos :
        (fs[p].todos[f].completed_at # NoTime) <=> fs[p].todos[f].is_completed

\* done has just completed a record: it carries the time of this invocation.
C6_Witness ==
    /\ out.cmd = "done"
    /\ out.status = "ok"
    /\ \E p \in GlobDirs(fs) : \E f \in DOMAIN fs[p].todos :
         fs[p].todos[f].is_completed /\ fs[p].todos[f].completed_at = now

(* C7: after every list invocation the index cache holds exactly the        *)
(* positions 1..N of the rows of that invocation, each mapped to the list   *)
(* name and filename of its row, and no entry of an earlier listing.        *)
C7_CacheIsLastListing ==
    Listed =>
        /\ DOMAIN idfile = 1..Len(out.rows)
        /\ \A k \in 1..Len(out.rows) :
             idfile[k] = <<NameOf(out.rows[k].database), out.rows[k].todo.filename>>

\* A listing narrowed to one list replaced a cache that had more entries.
C7_Witness ==
    /\ Listed
    /\ out.lists = <<"work">>
    /\ Len(out.rows) >= 1
    /\ out.replaced > Len(out.rows)

\* How many rows the last listing has to produce: one for every check of a
\* record the filter rule keeps.
C8_Expected ==
    Cardinality({k \in 1..Len(out.checked) :
                   C4_Keep(out.checked[k].todo, out.checked[k].clock)})

(* C8: a record that fails to render does not end the listing: its place    *)
(* holds an error line naming its list and filename, every other row is     *)
(* rendered with its own position, the failed row has its position in the   *)
(* index cache and the cache is written.                                    *)
C8_RenderFailureIsolated ==
    (out.cmd \in ListCmds /\ out.status \notin {"RuntimeError", "BadParameter"}) =>
        /\ out.status = "ok"
        /\ Len(out.rows) = C8_Expected
        /\ DOMAIN idfile = 1..Len(out.rows)
        /\ \A k \in 1..Len(out.rows) :
             LET row == out.rows[k] IN
             /\ idfile[k] = <<NameOf(row.database), row.todo.filename>>
             /\ IF row.todo.malformed
                THEN /\ row.kind = "error"
                     /\ row.text = NameOf(row.database) \o "/" \o row.todo.filename
                ELSE row.kind = "row" /\ row.index = k

\* The first row failed to render and the second was rendered as row 2.
C8_Witness ==
    /\ Listed
    /\ Len(out.rows) >= 2
    /\ out.rows[1].kind = "error"
    /\ out.rows[2].kind = "row"
    /\ out.rows[2].index = 2
    /\ idfile[1] = <<NameOf(out.rows[1].database), out.rows[1].todo.filename>>

\* The invocation of this step was show, edit or done and cli() let it run.
ById ==
    /\ out'.cmd \in {"show", "edit", "done"}
    /\ out'.step = "run"
    /\ out'.status # "RuntimeError"

(* C9: show, edit and done given an id that is not a position of the last   *)
(* listing (0, or more than its number of rows) fail with the error for an  *)
(* unknown id and change neither a record nor the index cache.              *)
C9_UnknownId ==
    [][(ById /\ (out'.ids[1] = 0 \/ out'.ids[1] > Cardinality(DOMAIN idfile))) =>
         /\ out'.status = "NoTaskWithId"
         /\ out'.failed = out'.ids[1]
         /\ fs' = fs
         /\ idfile' = idfile]_vars

\* show 99 after a listing of two rows
C9_Witness ==
    /\ out.cmd = "show"
    /\ out.ids = <<99>>
    /\ out.status = "NoTaskWithId"
    /\ DOMAIN idfile = 1..2

\* The index cache maps id to a list or a file that is no longer there.
Stale(id) ==
    /\ id \in DOMAIN idfile
    /\ \/ idfile[id][1] \notin {NameOf(p) : p \in GlobDirs(fs)}
       \/ \E p \in GlobDirs(fs) :
            NameOf(p) = idfile[id][1] /\ idfile[id][2] \notin DOMAIN fs[p].todos

(* C10: show, edit and done given an id whose list or file is gone fail     *)
(* with the error for a task not found; the failing resolution changes no   *)
(* record: done has changed at most the records of the ids before it.       *)
C10_StaleId ==
    [][\A k \in 1..Len(out'.ids) :
         (/\ ById
          /\ Stale(out'.ids[k])
          /\ \A j \in 1..(k - 1) : get_todo(cli(fs).db, idfile, out'.ids[j]).status = "ok")
         =>
         /\ out'.status = "TaskNotFound"
         /\ out'.failed = out'.ids[k]
         /\ idfile' = idfile
         /\ DOMAIN fs' = DOMAIN fs
         /\ \A p \in GlobDirs(fs) :
              /\ DOMAIN fs'[p].todos = DOMAIN fs[p].todos
              /\ \A f \in DOMAIN fs[p].todos :
                   fs'[p].todos[f] # fs[p].todos[f] =>
                       \E j \in 1..(k - 1) :
                           /\ get_todo(cli(fs).db, idfile, out'.ids[j]).database = p
                           /\ get_todo(cli(fs).db, idfile, out'.ids[j]).todo.filename = f]_vars

\* edit of an id whose list has been removed since the listing
C10_Witness ==
    /\ out.cmd = "edit"
    /\ out.status = "TaskNotFound"
    /\ Stale(out.ids[1])
    /\ idfile[out.ids[1]][1] \notin {NameOf(p) : p \in GlobDirs(fs)}

-----------------------------------------------------------------------------
\* The names of the lists of the Collection built from the disk.
ListNames(disk) == {NameOf(p) : p \in GlobDirs(disk)}

\* The first of the names in lists that is no list of the Collection.
FirstUnknown(lists, disk) ==
    lists[Min({i \in 1..Len(lists) : lists[i] \notin ListNames(disk)})]

(* C11: a list invocation with a name filter that is no list of the         *)
(* Collection fails with a parameter error that names the rejected filter   *)
(* and the available lists, also when other filters of the same invocation  *)
(* are valid; it renders no row and leaves the index cache and the disk as  *)
(* they were.                                                               *)
C11_UnknownListRejected ==
    [][(/\ out'.cmd \in ListCmds
        /\ out'.status # "RuntimeError"
        /\ \E i \in 1..Len(out'.lists) : out'.lists[i] \notin ListNames(fs))
       => (/\ out'.status = "BadParameter"
           /\ out'.param = FirstUnknown(out'.lists, fs)
           /\ out'.choices = ListNames(fs)
           /\ out'.rows = <<>>
           /\ idfile' = idfile
           /\ fs' = fs)]_vars

\* `list work nolist` is rejected while the cache of an earlier listing holds
\* positions.
C11_Witness ==
    /\ out.cmd = "list"
    /\ out.lists = <<"work", "nolist">>
    /\ out.status = "BadParameter"
    /\ out.param = "nolist"
    /\ "work" \in out.choices
    /\ idfile # <<>>

-----------------------------------------------------------------------------
\* The invocation of this step is one of the commands that are not list.
NotList == out'.cmd \in {"new", "show", "edit", "done"} /\ out'.status # "RuntimeError"

(* C12: new, show, edit and done leave the index cache as the last list     *)
(* wrote it, so a position that resolved to a record before the command     *)
(* resolves to the same list and the same filename after it, also when the  *)
(* command edited or completed that record.                                 *)
C12_CacheOnlyWrittenByList ==
    [][NotList =>
         /\ idfile' = idfile
         /\ \A id \in DOMAIN idfile :
               LET before == get_todo(cli(fs).db, idfile, id)
                   after == get_todo(cli(fs').db, idfile', id)
               IN before.status = "ok" =>
                     /\ after.status = "ok"
                     /\ after.database = before.database
                     /\ after.todo.filename = before.todo.filename]_vars

\* Position 1 still resolves after `edit 1` has rewritten its record.
C12_Witness ==
    /\ out.cmd = "edit"
    /\ out.saved
    /\ out.ids = <<1>>
    /\ 1 \in DOMAIN idfile
    /\ get_todo(cli(fs).db, idfile, 1).status = "ok"
    /\ get_todo(cli(fs).db, idfile, 1).todo.summary = "call"

-----------------------------------------------------------------------------
\* The invocation of this step is a new that passed the checks of its
\* parameters.
NewRan ==
    /\ out'.cmd = "new"
    /\ out'.status \notin {"RuntimeError", "BadParameter", "editing"}

(* C13: when the editor reports cancellation nothing is persisted: edit     *)
(* saves nothing, and new -i exits with status 1, which is not the usage    *)
(* error, whatever the summary is, and saves nothing; no file of any list   *)
(* is added or changed.                                                     *)
C13_CancelPersistsNothing ==
    [][/\ (out'.cmd = "edit" /\ out'.status = "ok" /\ ~out'.saved)
            => (fs' = fs /\ idfile' = idfile)
       /\ (NewRan /\ out'.args.interactive /\ ~out'.args.saved)
            => (/\ out'.status = "Exit1"
                /\ ~out'.saved
                /\ fs' = fs
                /\ created' = created
                /\ idfile' = idfile)]_vars

\* `new -i` with no summary on the command line, cancelled in the editor with
\* the summary still empty.
C13_Witness ==
    /\ out.cmd = "new"
    /\ out.status = "Exit1"
    /\ out.args.interactive
    /\ ~out.args.saved
    /\ out.args.summary = <<>>
    /\ out.args.edited = ""

\* The summary new goes on with: the one the editor left for new -i, else the
\* words of the command line.
SummaryLeft(args) == IF args.interactive THEN args.edited ELSE Join(args.summary)

(* C14: a new that was not cancelled fails with a usage error and saves     *)
(* nothing exactly when the summary is empty after the optional interactive *)
(* step; otherwise, the directory of its list being there, it saves one new *)
(* record with that summary. An empty command-line summary filled in the    *)
(* editor is saved, a non-empty one emptied in the editor is rejected.      *)
C14_SummaryCheckedAfterEditor ==
    [][(/\ NewRan
        /\ out'.status # "PersistenceError"
        /\ ~(out'.args.interactive /\ ~out'.args.saved)) =>
         IF SummaryLeft(out'.args) = ""
         THEN /\ out'.status = "UsageError"
              /\ fs' = fs
              /\ created' = created
         ELSE /\ out'.status = "ok"
              /\ \E f \in DOMAIN fs'[out'.database].todos :
                    /\ f \notin DOMAIN fs[out'.database].todos
                    /\ fs'[out'.database].todos[f].summary = SummaryLeft(out'.args)]_vars

\* `new -i` with no summary on the command line; the summary typed in the
\* editor is the one on disk.
C14_Witness ==
    /\ out.cmd = "new"
    /\ out.status = "ok"
    /\ out.args.summary = <<>>
    /\ out.args.interactive
    /\ out.todo.filename \in DOMAIN fs[out.database].todos
    /\ fs[out.database].todos[out.todo.filename].summary = "call"

-----------------------------------------------------------------------------
(* C15: in the index cache a list invocation has written no two positions   *)
(* map to the same (list name, filename) pair, also when a list name is     *)
(* given more than once as a filter.                                        *)
C15_OnePositionPerRecord ==
    Listed =>
        \A i, j \in DOMAIN idfile : i # j => idfile[i] # idfile[j]

-----------------------------------------------------------------------------
(* C16: the mapping of positions a list invocation has written is the one   *)
(* every order of discovering the lists and of iterating their records      *)
(* gives for the same records, the same filter names and the same now,     *)
(* every read of the clock returning it.                                    *)
C16_OrderIndependent ==
    (Listed /\ \A k \in 1..Len(ClockSeen) : ClockSeen[k] = now) =>
        \A values \in ValuesOrders(fs, out.lists), order \in TodoOrders(fs) :
            LET sel == _validate_lists_param(cli(fs).db, out.lists, values)
                clock == SteadyClock(now, NumReads(IterPairs(sel.dbs, order)))
            IN ListIds(idfile, sorted(Pairs(sel.dbs, order, clock))) = idfile

-----------------------------------------------------------------------------
\* The record was completed by a done of this run: the records found
\* completed on the first disk were completed at 0 (a done that runs with the
\* clock stepped back to 0 is not told from them).
DoneInRun(todo) == todo.is_completed /\ todo.completed_at # 0

\* Every time the last listing looked at the record of the check c, the
\* clock returned more than 7 days past its completion.
AlwaysPast(c) ==
    \A d \in Checked :
        (d.database.path = c.database.path /\ d.todo = c.todo) => Age(d) > SevenDays

(* C17: a record that done has completed is rendered and given a position   *)
(* by every list over its list made less than 7 days after the completion,  *)
(* and is neither rendered nor given a position by any list made more than  *)
(* 7 days after it; when a list is made is what the clock returns to it as  *)
(* it looks at the record.                                                  *)
C17_DoneVisibleSevenDays ==
    Listed =>
        \A c \in Checked :
            DoneInRun(c.todo) =>
                /\ Age(c) < SevenDays
                      => (Shown(c) /\ Indexed(c.database.path, c.todo))
                /\ AlwaysPast(c)
                      => (~Rendered(c.database.path, c.todo)
                          /\ ~Indexed(c.database.path, c.todo))

\* done completed the record of "work", more than 7 days went by, and the
\* listing of every list no longer has it.
C17_Witness ==
    /\ Listed
    /\ out.lists = <<>>
    /\ WorkDir \in GlobDirs(fs)
    /\ DoneInRun(fs[WorkDir].todos["t1.ics"])
    /\ fs[WorkDir].todos["t1.ics"].completed_at # NoTime
    /\ \E c \in Checked : /\ c.database.path = WorkDir
                          /\ c.todo = fs[WorkDir].todos["t1.ics"]
                          /\ AlwaysPast(c)
    /\ ~Indexed(WorkDir, fs[WorkDir].todos["t1.ics"])

-----------------------------------------------------------------------------
(* C18: run with no subcommand, the tool does what list with no name filter *)
(* does once the Collection is built: over every list it renders exactly    *)
(* the records the filter keeps, and the rows and the index cache it leaves *)
(* are those of an explicit list with no filter in the same state.          *)
C18_DefaultIsList ==
    (out.cmd = "" /\ out.status # "RuntimeError") =>
        /\ out.status = "ok"
        /\ out.lists = <<>>
        /\ \A p \in GlobDirs(fs) : \A f \in DOMAIN fs[p].todos :
             \E c \in Checked : c.database.path = p /\ c.todo = fs[p].todos[f]
        /\ \A c \in Checked :
             /\ Shown(c) <=> C4_Keep(c.todo, c.clock)
             /\ Shown(c) => Indexed(c.database.path, c.todo)
        /\ Len(out.rows) = C8_Expected
        /\ \E values \in ValuesOrders(fs, <<>>), order \in TodoOrders(fs) :
             LET sel == _validate_lists_param(cli(fs).db, <<>>, values)
                 iter == IterPairs(sel.dbs, order)
                 run == ListRun(<<>>, sorted(Pairs(sel.dbs, order, ClockSeen)))
             IN /\ Len(ClockSeen) = NumReads(iter)
                /\ Checks(iter, ClockSeen) = out.checked
                /\ run.rows = out.rows
                /\ dump_idfile(run.ids) = idfile

\* The tool run with no subcommand listed a record of each of two lists.
C18_Witness ==
    /\ out.cmd = ""
    /\ out.status = "ok"
    /\ Len(out.rows) = 2
    /\ out.rows[1].database # out.rows[2].database
    /\ DOMAIN idfile = 1..2

-----------------------------------------------------------------------------
\* The comparator key of the record in row k of the last output.
RowKey(k) == task_sort_func(out.rows[k].todo)

(* C19: list gives the positions 1, 2, ..., N, one to each row and without  *)
(* gaps, in descending order of the comparator: for rows at positions       *)
(* i < j the key of the record at i is not less than the key of the one at  *)
(* j.                                                                       *)
C19_PositionsDescending ==
    Listed =>
        /\ DOMAIN idfile = 1..Len(out.rows)
        /\ \A k \in 1..Len(out.rows) :
             out.rows[k].kind = "row" => out.rows[k].index = k
        /\ \A i, j \in 1..Len(out.rows) :
             i < j => ~KeyLess(RowKey(i), RowKey(j))

\* A listing of three rows, the first with a key greater than the last.
C19_Witness ==
    /\ Listed
    /\ Len(out.rows) = 3
    /\ KeyLess(RowKey(3), RowKey(1))
    /\ out.rows[3].kind = "row"
    /\ out.rows[3].index = 3

-----------------------------------------------------------------------------
\* One of the ids resolves, in the index cache and on the disk before the
\* command, to the record `filename` of the list in the directory `path`.
ResolvedBy(ids, path, filename) ==
    \E i \in 1..Len(ids) :
        LET r == get_todo(cli(fs).db, idfile, ids[i]) IN
        /\ r.status = "ok"
        /\ r.database = path
        /\ r.todo.filename = filename

(* C20: done leaves the set of lists, the set of records of every list and  *)
(* the index cache as they were; a record none of its ids resolves to is    *)
(* unchanged, and a record one of them resolves to keeps its summary, due   *)
(* date and filename. list, the default route and show change no record.    *)
C20_DoneFrame ==
    [][/\ (out'.cmd = "done" /\ out'.status # "RuntimeError") =>
            /\ idfile' = idfile
            /\ DOMAIN fs' = DOMAIN fs
            /\ \A p \in DOMAIN fs :
                 /\ fs'[p].isdir = fs[p].isdir
                 /\ DOMAIN fs'[p].todos = DOMAIN fs[p].todos
                 /\ \A f \in DOMAIN fs[p].todos :
                      IF ResolvedBy(out'.ids, p, f)
                      THEN /\ fs'[p].todos[f].summary = fs[p].todos[f].summary
                           /\ fs'[p].todos[f].due = fs[p].todos[f].due
                           /\ fs'[p].todos[f].filename = fs[p].todos[f].filename
                           /\ fs'[p].todos[f].malformed = fs[p].todos[f].malformed
                      ELSE fs'[p].todos[f] = fs[p].todos[f]
       /\ (out'.cmd \in {"show", "list", ""}) => fs' = fs]_vars

\* `done 1` has completed the record of "work" that has a due date; the
\* record of "home" is as it was found.
C20_Witness ==
    /\ out.cmd = "done"
    /\ out.status = "ok"
    /\ out.ids = <<1>>
    /\ WorkDir \in GlobDirs(fs)
    /\ fs[WorkDir].todos["t1.ics"].is_completed
    /\ fs[WorkDir].todos["t1.ics"].completed_at = now
    /\ fs[WorkDir].todos["t1.ics"].due = Due1
    /\ fs[WorkDir].todos["t1.ics"].summary = "pay"
    /\ HomeDir \in GlobDirs(fs)
    /\ fs[HomeDir].todos["t1.ics"] \in InitHome

====
